---- MODULE Spec2Model ----
(***************************************************************************)
(* strudel-lorenz: two scripts (lorenz-funky.js and a second, unnamed one, *)
(* src/unnamed/part_000) that integrate the Lorenz system with RK4 and map *)
(* the trajectory to bounded control series for a pattern-playback engine. *)
(*                                                                         *)
(* Numbers.  A JavaScript number is modelled as a fixed-point value: the   *)
(* integer n stands for n/Scale.  Scale = 600 is the least grid on which   *)
(* every literal of both scripts (0.01, 0.05, 0.1, 0.15, 0.25, ... ), dt/6 *)
(* and beta = 8/3 are exact.  Finite values lie in -MaxFinite..MaxFinite;  *)
(* a result beyond that overflows to +/-Infinity as a double does beyond   *)
(* Number.MAX_VALUE, and NaN arises as in IEEE 754 (Inf-Inf, 0*Inf, 0/0,   *)
(* undefined + number).  Results are rounded toward zero to the grid.      *)
(***************************************************************************)
EXTENDS Integers, Sequences, FiniteSets

Scale == 600
MaxFinite == 8000000

PosInf == MaxFinite + 1
NegInf == 0 - PosInf
NaN == MaxFinite + 2

\* An integer literal k of the source.
Lit(k) == k * Scale

\* isFinite / Number.isFinite on a number.
IsFinite(v) == v >= 0 - MaxFinite /\ v <= MaxFinite

Abs(v) == IF v < 0 THEN 0 - v ELSE v

\* Math.sign on a number that is not NaN.
Sign(v) == IF v > 0 THEN 1 ELSE IF v < 0 THEN -1 ELSE 0

\* A real result brought back to the number range: overflow gives +/-Infinity.
Ovf(r) == IF r > MaxFinite THEN PosInf ELSE IF r < 0 - MaxFinite THEN NegInf ELSE r

FNeg(a) == IF a = NaN THEN NaN ELSE 0 - a

\* a + b
FAdd(a, b) ==
  IF a = NaN \/ b = NaN THEN NaN
  ELSE IF ~IsFinite(a) /\ ~IsFinite(b) THEN (IF a = b THEN a ELSE NaN)
  ELSE IF ~IsFinite(a) THEN a
  ELSE IF ~IsFinite(b) THEN b
  ELSE Ovf(a + b)

\* a - b
FSub(a, b) == FAdd(a, FNeg(b))

\* |a|*|b| on the grid for finite a, b >= 0, computed in parts so that no
\* intermediate leaves the 32-bit range of TLC's integers.
MulMag(a, b) ==
  LET ah == a \div Scale
      al == a % Scale
      bh == b \div Scale
      bl == b % Scale
  IN IF ah * bh > MaxFinite \div Scale THEN PosInf
     ELSE Ovf(ah * bh * Scale + ah * bl + al * bh + (al * bl) \div Scale)

\* a * b
FMul(a, b) ==
  IF a = NaN \/ b = NaN THEN NaN
  ELSE IF ~IsFinite(a) \/ ~IsFinite(b)
       THEN (IF a = 0 \/ b = 0 THEN NaN
             ELSE IF Sign(a) = Sign(b) THEN PosInf ELSE NegInf)
  ELSE LET m == MulMag(Abs(a), Abs(b))
       IN IF Sign(a) * Sign(b) < 0 THEN 0 - m ELSE m

\* |a|/|b| on the grid for finite a >= 0, b > 0 (600 = 20 * 30, in two digits).
DivMag(a, b) ==
  LET q == a \div b
      r1 == (a % b) * 20
      d1 == r1 \div b
      d2 == ((r1 % b) * 30) \div b
  IN IF q > MaxFinite \div Scale THEN PosInf
     ELSE Ovf(q * Scale + d1 * 30 + d2)

\* a / b
FDiv(a, b) ==
  IF a = NaN \/ b = NaN THEN NaN
  ELSE IF ~IsFinite(a) THEN (IF ~IsFinite(b) THEN NaN
                             ELSE IF Sign(a) * (IF b < 0 THEN -1 ELSE 1) > 0
                                  THEN PosInf ELSE NegInf)
  ELSE IF ~IsFinite(b) THEN 0
  ELSE IF b = 0 THEN (IF a = 0 THEN NaN ELSE IF a > 0 THEN PosInf ELSE NegInf)
  ELSE LET m == DivMag(Abs(a), Abs(b))
       IN IF Sign(a) * Sign(b) < 0 THEN 0 - m ELSE m

\* The largest r in lo..hi whose square does not exceed v (bisection).
RECURSIVE SqrtIn(_, _, _)
SqrtIn(v, lo, hi) ==
  IF lo >= hi THEN lo
  ELSE LET mid == (lo + hi + 1) \div 2
       IN IF MulMag(mid, mid) <= v THEN SqrtIn(v, mid, hi)
          ELSE SqrtIn(v, lo, mid - 1)

\* Math.sqrt
FSqrt(a) ==
  IF a = NaN \/ a < 0 THEN NaN
  ELSE IF a = PosInf THEN PosInf
  ELSE SqrtIn(a, 0, MaxFinite)

\* Math.pow(a, 2)
FPow2(a) == FMul(a, a)

\* Math.floor of a finite number, as an integer (used as an array index).
Floor(a) == IF a >= 0 THEN a \div Scale ELSE 0 - ((0 - a + Scale - 1) \div Scale)

\* Math.round (half-way cases go up); NaN and +/-Infinity are returned as is.
FRound(a) == IF IsFinite(a) THEN Ovf(Lit(Floor(a + Scale \div 2))) ELSE a

\* Math.max and Math.min of two numbers.
FMax(a, b) == IF a = NaN \/ b = NaN THEN NaN ELSE IF a >= b THEN a ELSE b
FMin(a, b) == IF a = NaN \/ b = NaN THEN NaN ELSE IF a <= b THEN a ELSE b

\* Math.sin of a finite t (|t| small: the gain pulse i * 0.05), by its series.
FSin(t) ==
  LET t2 == FMul(t, t)
      t3 == FMul(t2, t)
      t5 == FMul(t3, t2)
      t7 == FMul(t5, t2)
      s == t - t3 \div 6 + t5 \div 120 - t7 \div 5040
  IN FMax(0 - Scale, FMin(Scale, s))

\* Math.sin(Math.atan2(b, a)) for finite a, b: b / hypot(a, b), and 0 at the
\* origin; Math.sin never leaves [-1, 1].
SinAtan2(b, a) ==
  LET h == FSqrt(FAdd(FPow2(a), FPow2(b)))
  IN IF b = 0 \/ h = 0 THEN 0
     ELSE FMax(0 - Scale, FMin(Scale, FDiv(b, h)))


\* A decimal literal n/d of the source (0.7 is Frac(7, 10)).
Frac(n, d) == (n * Scale) \div d

Half == Frac(1, 2)

(***************************************************************************)
(* Voice selection (both scripts, lines 1-6).                              *)
(***************************************************************************)
NoRegistry == [present |-> FALSE, names |-> {}]

\* Object.keys(globalThis?.strudel?.sounds || {})
Avail(reg) == IF reg.present THEN reg.names ELSE {}

MinOf(S) == CHOOSE m \in S : \A k \in S : m <= k

\* pick with the fallback taken from the list: ... || cands[0]
pickFallbackHead(cands, avail) ==
  LET hits == {k \in 1..Len(cands) : cands[k] \in avail}
  IN IF hits # {} /\ cands[MinOf(hits)] # "" THEN cands[MinOf(hits)]
     ELSE IF Len(cands) > 0 THEN cands[1] ELSE "sine"

\* pick: cands.find(n => avail.includes(n)) || "sine".  find gives undefined
\* when no candidate is available; || takes "sine" for undefined and for any
\* other falsy value, which among strings is the empty name alone.
pick(cands, avail) ==
  LET hits == {k \in 1..Len(cands) : cands[k] \in avail}
  IN IF hits = {} \/ cands[MinOf(hits)] = "" THEN "sine" ELSE cands[MinOf(hits)]

LeadCands == <<"tri", "pluck", "sine">>
PadCands == <<"saw", "pulse", "tri", "sine">>

(***************************************************************************)
(* Safety helpers.                                                         *)
(***************************************************************************)
\* safeNum: Number(v) when finite, else def.
safeNum(v, def) == IF IsFinite(v) THEN v ELSE def

\* safeArr on an array.
safeArr(arr, def) == [k \in 1..Len(arr) |-> safeNum(arr[k], def)]

\* clampArr without the safeArr pass: a NaN goes through Math.max / Math.min
clampArrNoSafe(arr, lo, hi) == [k \in 1..Len(arr) |-> FMax(lo, FMin(hi, arr[k]))]

\* clampArr: safeArr(arr) with its default 0, then Math.max(lo, Math.min(hi, v)).
clampArr(arr, lo, hi) ==
  LET s == safeArr(arr, 0)
  IN [k \in 1..Len(arr) |-> FMax(lo, FMin(hi, s[k]))]

\* clamp of the second script: a non-finite value becomes the midpoint.
clamp(val, min, max) ==
  LET v == IF IsFinite(val) THEN val ELSE FDiv(FAdd(min, max), Lit(2))
  IN FMax(min, FMin(max, v))

(***************************************************************************)
(* The Lorenz integrator: one pass of the RK4 loop body.                   *)
(***************************************************************************)
RK4Step(p, dt, sigma, rho, beta) ==
  LET x == p[1]
      y == p[2]
      z == p[3]
      dx(a, b) == FMul(sigma, FSub(b, a))
      dy(a, b, c) == FSub(FMul(a, FSub(rho, c)), b)
      dz(a, b, c) == FSub(FMul(a, b), FMul(beta, c))
      hdt == FMul(Half, dt)
      k1x == dx(x, y)
      k1y == dy(x, y, z)
      k1z == dz(x, y, z)
      x2 == FAdd(x, FMul(hdt, k1x))
      y2 == FAdd(y, FMul(hdt, k1y))
      z2 == FAdd(z, FMul(hdt, k1z))
      k2x == dx(x2, y2)
      k2y == dy(x2, y2, z2)
      k2z == dz(x2, y2, z2)
      x3 == FAdd(x, FMul(hdt, k2x))
      y3 == FAdd(y, FMul(hdt, k2y))
      z3 == FAdd(z, FMul(hdt, k2z))
      k3x == dx(x3, y3)
      k3y == dy(x3, y3, z3)
      k3z == dz(x3, y3, z3)
      x4 == FAdd(x, FMul(dt, k3x))
      y4 == FAdd(y, FMul(dt, k3y))
      z4 == FAdd(z, FMul(dt, k3z))
      k4x == dx(x4, y4)
      k4y == dy(x4, y4, z4)
      k4z == dz(x4, y4, z4)
      dt6 == FDiv(dt, Lit(6))
      two == Lit(2)
      sum(a, b, c, d) == FAdd(FAdd(FAdd(a, FMul(two, b)), FMul(two, c)), d)
  IN << FAdd(x, FMul(dt6, sum(k1x, k2x, k3x, k4x))),
        FAdd(y, FMul(dt6, sum(k1y, k2y, k3y, k4y))),
        FAdd(z, FMul(dt6, sum(k1z, k2z, k3z, k4z))) >>

\* let x = 1, y = 1, z = 1
InitialCondition == <<Lit(1), Lit(1), Lit(1)>>

\* The default arguments sigma = 10, rho = 28, beta = 8/3.
DefaultSigma == Lit(10)
DefaultRho == Lit(28)
DefaultBeta == FDiv(Lit(8), Lit(3))

(***************************************************************************)
(* Data processing.                                                        *)
(***************************************************************************)
\* pts.map(p => p.x), p.y, p.z
Axis(pts, a) == [k \in 1..Len(pts) |-> pts[k][a]]

\* norm with 0 in place of the midpoint for a degenerate range
normDegenerateZero(arr) ==
  LET finite == {arr[k] : k \in {j \in 1..Len(arr) : IsFinite(arr[j])}}
      zero == [k \in 1..Len(arr) |-> 0]
  IN IF finite = {} THEN zero
     ELSE LET mn == CHOOSE v \in finite : \A w \in finite : v <= w
              mx == CHOOSE v \in finite : \A w \in finite : v >= w
          IN IF mn = mx \/ ~IsFinite(mn) \/ ~IsFinite(mx) THEN zero
             ELSE [k \in 1..Len(arr) |->
                    IF ~IsFinite(arr[k]) THEN Half
                    ELSE LET normalized == FDiv(FSub(arr[k], mn), FSub(mx, mn))
                         IN IF IsFinite(normalized) THEN normalized ELSE Half]

\* norm scaling by the maximum alone: v / mx
normByMax(arr) ==
  LET finite == {arr[k] : k \in {j \in 1..Len(arr) : IsFinite(arr[j])}}
      mid == [k \in 1..Len(arr) |-> Half]
  IN IF finite = {} THEN mid
     ELSE LET mn == CHOOSE v \in finite : \A w \in finite : v <= w
              mx == CHOOSE v \in finite : \A w \in finite : v >= w
          IN IF mn = mx \/ ~IsFinite(mn) \/ ~IsFinite(mx) THEN mid
             ELSE [k \in 1..Len(arr) |->
                    IF ~IsFinite(arr[k]) THEN Half
                    ELSE LET normalized == FDiv(arr[k], mx)
                         IN IF IsFinite(normalized) THEN normalized ELSE Half]

\* norm
norm(arr) ==
  LET finite == {arr[k] : k \in {j \in 1..Len(arr) : IsFinite(arr[j])}}
      mid == [k \in 1..Len(arr) |-> Half]
  IN IF finite = {} THEN mid
     ELSE LET mn == CHOOSE v \in finite : \A w \in finite : v <= w
              mx == CHOOSE v \in finite : \A w \in finite : v >= w
          IN IF mn = mx \/ ~IsFinite(mn) \/ ~IsFinite(mx) THEN mid
             ELSE [k \in 1..Len(arr) |->
                    IF ~IsFinite(arr[k]) THEN Half
                    ELSE LET normalized == FDiv(FSub(arr[k], mn), FSub(mx, mn))
                         IN IF IsFinite(normalized) THEN normalized ELSE Half]

\* diff without the i ? ... : 0 guard: element 0 is v - undefined
diffNoGuard(arr) == [k \in 1..Len(arr) |-> IF k = 1 THEN NaN ELSE FSub(arr[k], arr[k - 1])]

\* diff
diff(arr) == [k \in 1..Len(arr) |-> IF k = 1 THEN 0 ELSE FSub(arr[k], arr[k - 1])]

\* v || 0
OrZero(v) == IF v = NaN \/ v = 0 THEN 0 ELSE v

\* rawSpd
rawSpd(pts, dxs, dys, dzs) ==
  [k \in 1..Len(pts) |->
     FSqrt(FAdd(FAdd(FPow2(OrZero(dxs[k])), FPow2(OrZero(dys[k]))),
                FPow2(OrZero(dzs[k]))))]

\* arr.filter((_, i) => i % n === 0)
EveryNth(arr, n) == [j \in 1..((Len(arr) + n - 1) \div n) |-> arr[(j - 1) * n + 1]]


(***************************************************************************)
(* Musical mapping of lorenz-funky.js.                                     *)
(***************************************************************************)
scale == <<0, 3, 5, 7, 10>>
octaves == <<0, 12, 24, 36>>

\* arr[k] used as a summand: undefined (k out of range) makes the sum NaN.
Elem(arr, k) == IF k >= 0 /\ k < Len(arr) THEN Lit(arr[k + 1]) ELSE NaN

\* scaleDegree = xs.map(v => Math.floor(v * scale.length))
scaleDegree(xs) == [k \in 1..Len(xs) |-> Floor(FMul(xs[k], Lit(Len(scale))))]

\* octave = ys.map(v => Math.floor(v * octaves.length))
octave(ys) == [k \in 1..Len(ys) |-> Floor(FMul(ys[k], Lit(Len(octaves))))]

\* notes = baseNote + octaves[octave[i]] + scale[deg]
FunkyNotes(xs, ys) ==
  [k \in 1..Len(xs) |->
     FAdd(FAdd(Lit(48), Elem(octaves, octave(ys)[k])), Elem(scale, scaleDegree(xs)[k]))]

\* cut = zs.map(v => 300 + v * 8000)
FunkyCut(zs) == [k \in 1..Len(zs) |-> FAdd(Lit(300), FMul(zs[k], Lit(8000)))]

\* pan = Math.sin(Math.atan2(ys[i] - 0.5, x - 0.5))
FunkyPan(xs, ys) ==
  [k \in 1..Len(xs) |-> SinAtan2(FSub(ys[k], Half), FSub(xs[k], Half))]

\* gain = 0.3 + 0.5 * s + 0.1 * Math.sin(i * 0.05)
FunkyGain(spd) ==
  [k \in 1..Len(spd) |->
     FAdd(FAdd(Frac(3, 10), FMul(Frac(1, 2), spd[k])),
          FMul(Frac(1, 10), FSin(FMul(Lit(k - 1), Frac(5, 100)))))]

(***************************************************************************)
(* Musical mapping of the second script.                                   *)
(***************************************************************************)
midiBase == Lit(60)
span == Lit(24)

\* notes = xs.map(v => clamp(Math.round(midiBase + v * span), 36, 96))
PartNotes(xs) ==
  [k \in 1..Len(xs) |-> clamp(FRound(FAdd(midiBase, FMul(xs[k], span))), Lit(36), Lit(96))]

\* ys.map(v => 200 + v * 5000)
PartCutRaw(ys) == [k \in 1..Len(ys) |-> FAdd(Lit(200), FMul(ys[k], Lit(5000)))]

\* zs.map(v => v * 2 - 1)
PartPanRaw(zs) == [k \in 1..Len(zs) |-> FSub(FMul(zs[k], Lit(2)), Lit(1))]

\* v => 0.2 + 0.6 * v
PartGainRaw(spd) == [k \in 1..Len(spd) |-> FAdd(Frac(2, 10), FMul(Frac(6, 10), spd[k]))]

\* cut, pan, gain: the raw value clamped element by element
ClampEach(arr, lo, hi) == [k \in 1..Len(arr) |-> clamp(arr[k], lo, hi)]

\* cross = dxs.map(d => isFinite(d) ? Math.sign(d) : 0)
cross(dxs) == [k \in 1..Len(dxs) |-> IF IsFinite(dxs[k]) THEN Sign(dxs[k]) ELSE 0]

\* crossings without the i > 0 guard: cross[-1] is undefined, never equal to v
crossingsNoGuard(cr) == [k \in 1..Len(cr) |-> IF k = 1 \/ cr[k] # cr[k - 1] THEN 1 ELSE 0]

\* crossings = cross.map((v, i) => (i > 0 && v !== cross[i-1]) ? 1 : 0)
crossings(cr) == [k \in 1..Len(cr) |-> IF k > 1 /\ cr[k] # cr[k - 1] THEN 1 ELSE 0]

\* thirds clamped with the bounds of roots: clamp(r + 4, 36, 84)
thirdsRootBounds(rs) == [k \in 1..Len(rs) |-> clamp(FAdd(rs[k], Lit(4)), Lit(36), Lit(84))]

\* roots, thirds, fifths
roots(notes) == ClampEach(EveryNth(notes, 8), Lit(36), Lit(84))
thirds(rs) == [k \in 1..Len(rs) |-> clamp(FAdd(rs[k], Lit(4)), Lit(36), Lit(96))]
fifths(rs) == [k \in 1..Len(rs) |-> clamp(FAdd(rs[k], Lit(7)), Lit(36), Lit(96))]

(***************************************************************************)
(* Percussion.  Math.random() is an ambient source: the draws of a run are *)
(* a stream rng, read cyclically, and calls counts the calls made so far.  *)
(* A call is made only when the conditions before it in the && chain hold. *)
(***************************************************************************)
Draw(stream, c) == stream[(c % Len(stream)) + 1]

\* arr.map(... (elig && Math.random() < thr) ? sym : "~"), from call number c0.
Trigger(elig, thr, sym, stream, c0) ==
  LET n == Len(elig)
      before(k) == c0 + Cardinality({j \in 1..(k - 1) : elig[j]})
  IN [out |-> [k \in 1..n |-> IF elig[k] /\ Draw(stream, before(k)) < thr
                              THEN sym ELSE "~"],
      calls |-> before(n + 1)]

\* The && conditions of lorenz-funky.js before the draw (i is k - 1).
FunkyKickElig(spd) == [k \in 1..Len(spd) |-> spd[k] > Frac(7, 10) /\ (k - 1) % 4 = 0]
FunkySnareElig(zs) ==
  [k \in 1..Len(zs) |->
     k - 1 > 0 /\ Abs(FSub(zs[k], Half)) < Frac(1, 10) /\ (k - 1) % 3 = 0]
FunkyHatElig(xs) == [k \in 1..Len(xs) |-> (k - 1) % 2 = 0 /\ xs[k] > Frac(6, 10)]

\* The && conditions of the second script before the draw.
PartKickElig(dxs) == [k \in 1..Len(dxs) |-> crossings(cross(dxs))[k] # 0]
PartSnareElig(spd) == [k \in 1..Len(spd) |-> spd[k] < Frac(15, 100)]
PartHatElig(zs) == [k \in 1..Len(zs) |-> zs[k] > Frac(7, 10)]


(***************************************************************************)
(* Bounds of the model.                                                    *)
(***************************************************************************)
\* Step counts of a script run: 0..MaxSteps (the scripts ask for 4096 and 1536).
MaxSteps == 17
\* Lengths of a trajectory drawn as input of the feature mapper: 0..MaxPts.
MaxPts == 3
\* Lengths of an array or candidate list given to a helper: 0..MaxLen.
MaxLen == 3
\* Period of a stream of Math.random() results.
RandPeriod == 2

\* Step sizes: the scripts' 0.01, a coarser 0.05, and 1, which diverges.
DtSet == {Frac(1, 100), Frac(5, 100), Lit(1)}

\* Coordinates of a drawn trajectory, and elements of a drawn array.
\* Big is a large finite value: Big - (-Big) overflows, Big - 3 does not.
Big == MaxFinite - Lit(3)
ValueSeq == <<NaN, PosInf, NegInf, 0 - Big, Big, 0, Lit(1), Lit(3)>>
Values == {ValueSeq[k] : k \in 1..Len(ValueSeq)}
Points ==
  {<<ValueSeq[k], ValueSeq[((k + 2) % Len(ValueSeq)) + 1],
     ValueSeq[((k + 4) % Len(ValueSeq)) + 1]>> : k \in 1..Len(ValueSeq)}

SeqsUpTo(S, n) == UNION {[1..m -> S] : m \in 0..n}

\* Math.random() results: one below and one above every threshold in use.
Draws == {0, Scale - 1}
Streams == [1..RandPeriod -> Draws]

\* Voice names: those the scripts ask for, and one they do not.
Voices == {"tri", "pluck", "sine", "saw", "pulse", "square"}
AllRegistries == {NoRegistry} \cup {[present |-> TRUE, names |-> s] : s \in SUBSET Voices}
RunRegistries == {NoRegistry, [present |-> TRUE, names |-> {"pluck", "pulse", "sine"}]}

Scripts == {"funky", "part"}

(***************************************************************************)
(* State.                                                                  *)
(***************************************************************************)
VARIABLES
  script,   \* which script runs: "funky" (lorenz-funky.js) or "part" (part_000)
  pc,       \* position in the script, or in a helper call
  sounds,   \* the runtime voice registry globalThis.strudel.sounds
  synth,    \* LEAD_SYNTH and PAD_SYNTH
  args,     \* the arguments of the lorenz call
  loc,      \* locals of lorenz: i, the state p = (x, y, z), pts
  pts,      \* the trajectory
  feat,     \* xs, ys, zs, dxs, dys, dzs, spd
  ctl,      \* notes, cut, pan, gain
  perc,     \* kicks, snares, hats
  safe,     \* NOTES_SAFE, CUT_SAFE, PAN_SAFE, GAIN_SAFE
  pad,      \* the pad series handed to the engine
  rng,      \* the stream of Math.random() results of this run
  calls,    \* Math.random() calls made so far in this run
  run,      \* 1, or 2 when the script is evaluated a second time
  prev,     \* what the first evaluation produced
  fnName,   \* helper under call: "norm", "diff" or "pick"
  fnArg,    \* its argument
  fnIn,     \* the argument as it was passed
  fnRet     \* its result

vars == <<script, pc, sounds, synth, args, loc, pts, feat, ctl, perc, safe, pad,
          rng, calls, run, prev, fnName, fnArg, fnIn, fnRet>>

None == <<>>
fnVars == <<fnName, fnArg, fnIn, fnRet>>
runVars == <<script, sounds, synth, args, loc, pts, feat, ctl, perc, safe, pad,
             rng, calls, run, prev>>

LorenzEntry == [i |-> 0, p |-> InitialCondition, pts |-> <<>>]

ScriptArgs(n, dt) ==
  [steps |-> n, dt |-> dt, sigma |-> DefaultSigma, rho |-> DefaultRho, beta |-> DefaultBeta]

(***************************************************************************)
(* A script run.                                                           *)
(***************************************************************************)
\* const LEAD_SYNTH = pick([...]); const PAD_SYNTH = pick([...]); then lorenz(...)
PickSynths ==
  /\ pc = "pick"
  /\ synth' = [lead |-> pick(LeadCands, Avail(sounds)), pad |-> pick(PadCands, Avail(sounds))]
  /\ loc' = LorenzEntry
  /\ pc' = "lorenz"
  /\ UNCHANGED <<script, sounds, args, pts, feat, ctl, perc, safe, pad, rng, calls,
                 run, prev, fnVars>>

\* The loop condition off by one: i <= steps
LoopCondInclusive == loc.i <= args.steps

\* The loop condition i < steps.
LoopCond == loc.i < args.steps

\* One iteration of for (let i = 0; i < steps; i++) { ...; pts.push({x, y, z}) }
LorenzStep ==
  /\ pc = "lorenz"
  /\ LoopCond
  /\ LET q == RK4Step(loc.p, args.dt, args.sigma, args.rho, args.beta)
     IN loc' = [i |-> loc.i + 1, p |-> q, pts |-> Append(loc.pts, q)]
  /\ UNCHANGED <<script, pc, sounds, synth, args, pts, feat, ctl, perc, safe, pad,
                 rng, calls, run, prev, fnVars>>

\* return pts
LorenzReturn ==
  /\ pc = "lorenz"
  /\ ~LoopCond
  /\ pts' = loc.pts
  /\ pc' = "process"
  /\ UNCHANGED <<script, sounds, synth, args, loc, feat, ctl, perc, safe, pad, rng,
                 calls, run, prev, fnVars>>

\* xs, ys, zs, dxs, dys, dzs, rawSpd, spd
Process ==
  /\ pc = "process"
  /\ LET dxs == diff(Axis(pts, 1))
         dys == diff(Axis(pts, 2))
         dzs == diff(Axis(pts, 3))
     IN feat' = [xs |-> norm(Axis(pts, 1)), ys |-> norm(Axis(pts, 2)),
                 zs |-> norm(Axis(pts, 3)), dxs |-> dxs, dys |-> dys, dzs |-> dzs,
                 spd |-> norm(rawSpd(pts, dxs, dys, dzs))]
  /\ pc' = "map"
  /\ UNCHANGED <<script, sounds, synth, args, loc, pts, ctl, perc, safe, pad, rng,
                 calls, run, prev, fnVars>>

FunkyMap ==
  /\ pc = "map" /\ script = "funky"
  /\ ctl' = [notes |-> FunkyNotes(feat.xs, feat.ys), cut |-> FunkyCut(feat.zs),
             pan |-> FunkyPan(feat.xs, feat.ys), gain |-> FunkyGain(feat.spd)]
  /\ pc' = "perc"
  /\ UNCHANGED <<script, sounds, synth, args, loc, pts, feat, perc, safe, pad, rng,
                 calls, run, prev, fnVars>>

PartMap ==
  /\ pc = "map" /\ script = "part"
  /\ ctl' = [notes |-> PartNotes(feat.xs),
             cut |-> ClampEach(PartCutRaw(feat.ys), Lit(200), Lit(8000)),
             pan |-> ClampEach(PartPanRaw(feat.zs), Lit(-1), Lit(1)),
             gain |-> ClampEach(PartGainRaw(feat.spd), Frac(1, 10), Lit(1))]
  /\ pc' = "perc"
  /\ UNCHANGED <<script, sounds, synth, args, loc, pts, feat, perc, safe, pad, rng,
                 calls, run, prev, fnVars>>

\* kicks, snares, hats of lorenz-funky.js, in that order
FunkyKicks(spd, stream, c0) == Trigger(FunkyKickElig(spd), Frac(8, 10), "bd", stream, c0)
FunkySnares(zs, stream, c0) == Trigger(FunkySnareElig(zs), Frac(4, 10), "sd", stream, c0)
FunkyHats(xs, stream, c0) == Trigger(FunkyHatElig(xs), Frac(6, 10), "hh", stream, c0)

FunkyPercussion ==
  /\ pc = "perc" /\ script = "funky"
  /\ \E stream \in Streams :
       LET k == FunkyKicks(feat.spd, stream, 0)
           s == FunkySnares(feat.zs, stream, k.calls)
           h == FunkyHats(feat.xs, stream, s.calls)
       IN /\ rng' = stream
          /\ perc' = [kicks |-> k.out, snares |-> s.out, hats |-> h.out]
          /\ calls' = h.calls
  /\ pc' = "safe"
  /\ UNCHANGED <<script, sounds, synth, args, loc, pts, feat, ctl, safe, pad, run,
                 prev, fnVars>>

\* kicks, snares, hats of the second script, in that order
PartKicks(dxs, stream, c0) == Trigger(PartKickElig(dxs), Frac(6, 10), "bd", stream, c0)
PartSnares(spd, stream, c0) == Trigger(PartSnareElig(spd), Frac(25, 100), "sd", stream, c0)
PartHats(zs, stream, c0) == Trigger(PartHatElig(zs), Frac(5, 10), "hh", stream, c0)

PartPercussion ==
  /\ pc = "perc" /\ script = "part"
  /\ \E stream \in Streams :
       LET k == PartKicks(feat.dxs, stream, 0)
           s == PartSnares(feat.spd, stream, k.calls)
           h == PartHats(feat.zs, stream, s.calls)
       IN /\ rng' = stream
          /\ perc' = [kicks |-> k.out, snares |-> s.out, hats |-> h.out]
          /\ calls' = h.calls
  /\ pc' = "safe"
  /\ UNCHANGED <<script, sounds, synth, args, loc, pts, feat, ctl, safe, pad, run,
                 prev, fnVars>>

\* The safe arrays with a random humanisation of the gain:
\* gain + 0.1 * Math.random()
FunkySafeArraysJitter(c) ==
  [NOTES_SAFE |-> clampArr(c.notes, Lit(36), Lit(96)),
   CUT_SAFE |-> clampArr(c.cut, Lit(100), Lit(12000)),
   PAN_SAFE |-> clampArr(c.pan, Lit(-1), Lit(1)),
   GAIN_SAFE |-> clampArr([k \in 1..Len(c.gain) |->
                            FAdd(c.gain[k], FMul(Frac(1, 10), Draw(rng, calls + k - 1)))],
                          Frac(1, 10), Frac(9, 10))]

\* NOTES_SAFE, CUT_SAFE, PAN_SAFE, GAIN_SAFE of lorenz-funky.js
FunkySafeArrays(c) ==
  [NOTES_SAFE |-> clampArr(c.notes, Lit(36), Lit(96)),
   CUT_SAFE |-> clampArr(c.cut, Lit(100), Lit(12000)),
   PAN_SAFE |-> clampArr(c.pan, Lit(-1), Lit(1)),
   GAIN_SAFE |-> clampArr(c.gain, Frac(1, 10), Frac(9, 10))]

FunkySafe ==
  /\ pc = "safe" /\ script = "funky"
  /\ safe' = FunkySafeArrays(ctl)
  /\ pc' = "pad"
  /\ UNCHANGED <<script, sounds, synth, args, loc, pts, feat, ctl, perc, pad, rng,
                 calls, run, prev, fnVars>>

\* NOTES_SAFE, CUT_SAFE, PAN_SAFE, SPD_SAFE, GAIN_SAFE of the second script
PartSafeArrays(c, f) ==
  [NOTES_SAFE |-> clampArr(c.notes, Lit(36), Lit(96)),
   CUT_SAFE |-> clampArr(PartCutRaw(f.ys), Lit(20), Lit(12000)),
   PAN_SAFE |-> clampArr(PartPanRaw(f.zs), Lit(-1), Lit(1)),
   GAIN_SAFE |-> clampArr(PartGainRaw(safeArr(f.spd, 0)), 0, Lit(1))]

PartSafe ==
  /\ pc = "safe" /\ script = "part"
  /\ safe' = PartSafeArrays(ctl, feat)
  /\ pc' = "pad"
  /\ UNCHANGED <<script, sounds, synth, args, loc, pts, feat, ctl, perc, pad, rng,
                 calls, run, prev, fnVars>>

\* padNotes, padCut, PAD_NOTES_SAFE, PAD_CUT_SAFE
FunkyPadArrays(c) ==
  [PAD_NOTES_SAFE |-> clampArr(EveryNth(c.notes, 16), Lit(36), Lit(84)),
   PAD_CUT_SAFE |-> clampArr(EveryNth(c.cut, 16), Lit(200), Lit(3000))]

FunkyPad ==
  /\ pc = "pad" /\ script = "funky"
  /\ pad' = FunkyPadArrays(ctl)
  /\ pc' = "done"
  /\ UNCHANGED <<script, sounds, synth, args, loc, pts, feat, ctl, perc, safe, rng,
                 calls, run, prev, fnVars>>

\* roots, thirds, fifths, ROOTS_SAFE, THIRDS_SAFE, FIFTHS_SAFE
PartPadArrays(c) ==
  LET rs == roots(c.notes)
  IN [ROOTS_SAFE |-> clampArr(rs, Lit(36), Lit(96)),
      THIRDS_SAFE |-> clampArr(thirds(rs), Lit(36), Lit(96)),
      FIFTHS_SAFE |-> clampArr(fifths(rs), Lit(36), Lit(96))]

PartPad ==
  /\ pc = "pad" /\ script = "part"
  /\ pad' = PartPadArrays(ctl)
  /\ pc' = "done"
  /\ UNCHANGED <<script, sounds, synth, args, loc, pts, feat, ctl, perc, safe, rng,
                 calls, run, prev, fnVars>>

\* The same script, with the same constants, is evaluated once more.
Rerun ==
  /\ pc = "done" /\ run = 1
  /\ prev' = [pts |-> pts, safe |-> safe, pad |-> pad, perc |-> perc]
  /\ run' = 2
  /\ pc' = "pick"
  /\ synth' = None /\ loc' = None /\ pts' = None /\ feat' = None /\ ctl' = None
  /\ perc' = None /\ safe' = None /\ pad' = None /\ rng' = None /\ calls' = 0
  /\ UNCHANGED <<script, sounds, args, fnVars>>

(***************************************************************************)
(* A helper called on its own.                                             *)
(***************************************************************************)
CallNorm ==
  /\ pc = "call" /\ fnName = "norm"
  /\ fnRet' = norm(fnArg)
  /\ pc' = "ret"
  /\ UNCHANGED <<runVars, fnName, fnArg, fnIn>>

CallDiff ==
  /\ pc = "call" /\ fnName = "diff"
  /\ fnRet' = diff(fnArg)
  /\ pc' = "ret"
  /\ UNCHANGED <<runVars, fnName, fnArg, fnIn>>

CallPick ==
  /\ pc = "call" /\ fnName = "pick"
  /\ fnRet' = pick(fnArg, Avail(sounds))
  /\ pc' = "ret"
  /\ UNCHANGED <<runVars, fnName, fnArg, fnIn>>

(***************************************************************************)
(* Specifications.                                                         *)
(***************************************************************************)
NoCall == fnName = "" /\ fnArg = None /\ fnIn = None /\ fnRet = None

Blank ==
  /\ synth = None /\ loc = None /\ pts = None /\ feat = None /\ ctl = None
  /\ perc = None /\ safe = None /\ pad = None /\ rng = None /\ calls = 0
  /\ run = 1 /\ prev = None

\* A script is evaluated from its first line.
Init ==
  /\ script \in Scripts
  /\ pc = "pick"
  /\ sounds \in RunRegistries
  /\ args \in {ScriptArgs(n, dt) : n \in 0..MaxSteps, dt \in DtSet}
  /\ Blank
  /\ NoCall

Next ==
  \/ PickSynths \/ LorenzStep \/ LorenzReturn \/ Process
  \/ FunkyMap \/ PartMap \/ FunkyPercussion \/ PartPercussion
  \/ FunkySafe \/ PartSafe \/ FunkyPad \/ PartPad \/ Rerun

Spec == Init /\ [][Next]_vars

\* lorenz called on its own, with any arguments.
InitLorenz ==
  /\ script \in Scripts
  /\ pc = "lorenz"
  /\ sounds = NoRegistry
  /\ args \in [steps : 0..MaxSteps, dt : DtSet, sigma : {DefaultSigma, 0},
               rho : {DefaultRho}, beta : {DefaultBeta, Lit(1)}]
  /\ synth = None /\ loc = LorenzEntry /\ pts = None /\ feat = None /\ ctl = None
  /\ perc = None /\ safe = None /\ pad = None /\ rng = None /\ calls = 0
  /\ run = 1 /\ prev = None
  /\ NoCall

NextLorenz == LorenzStep \/ LorenzReturn

SpecLorenz == InitLorenz /\ [][NextLorenz]_vars

\* The feature mapper on any trajectory.
InitMap ==
  /\ script \in Scripts
  /\ pc = "process"
  /\ sounds = NoRegistry
  /\ pts \in SeqsUpTo(Points, MaxPts)
  /\ args = ScriptArgs(Len(pts), Frac(1, 100))
  /\ synth = [lead |-> "sine", pad |-> "sine"]
  /\ loc = None /\ feat = None /\ ctl = None
  /\ perc = None /\ safe = None /\ pad = None /\ rng = None /\ calls = 0
  /\ run = 1 /\ prev = None
  /\ NoCall

NextMap ==
  \/ Process \/ FunkyMap \/ PartMap \/ FunkyPercussion \/ PartPercussion
  \/ FunkySafe \/ PartSafe \/ FunkyPad \/ PartPad

SpecMap == InitMap /\ [][NextMap]_vars

\* norm, diff and pick on any argument, and the voice selection of a script
\* under any registry.
InitFn ==
  /\ script \in Scripts
  /\ args = None
  /\ Blank
  /\ \/ /\ pc = "call"
        /\ fnName \in {"norm", "diff", "pick"}
        /\ IF fnName = "pick"
           THEN /\ sounds \in AllRegistries
                /\ fnArg \in SeqsUpTo(Voices, MaxLen - 1)
           ELSE /\ sounds = NoRegistry
                /\ fnArg \in SeqsUpTo(Values, MaxLen)
        /\ fnIn = fnArg
        /\ fnRet = None
     \/ /\ pc = "pick"
        /\ sounds \in AllRegistries
        /\ NoCall

NextFn == CallNorm \/ CallDiff \/ CallPick \/ PickSynths

SpecFn == InitFn /\ [][NextFn]_vars


(***************************************************************************)
(* Properties of the helpers (SpecFn).                                     *)
(***************************************************************************)
Returned(f) == pc = "ret" /\ fnName = f

FiniteOf(arr) == {arr[k] : k \in {j \in 1..Len(arr) : IsFinite(arr[j])}}
MinFinite(arr) == CHOOSE v \in FiniteOf(arr) : \A w \in FiniteOf(arr) : v <= w
MaxFinite_(arr) == CHOOSE v \in FiniteOf(arr) : \A w \in FiniteOf(arr) : v >= w

\* C2: norm of an array whose finite elements are all equal, or that has no
\* finite element, has the length of the array and is 0.5 everywhere; norm of
\* the empty array is empty.
C2_NormDegenerate ==
  Returned("norm") /\ Cardinality(FiniteOf(fnIn)) <= 1 =>
    /\ Len(fnRet) = Len(fnIn)
    /\ \A k \in 1..Len(fnIn) : fnRet[k] = Half
    /\ (fnIn = <<>> => fnRet = <<>>)

\* A constant array with a non-finite element in it has been normalised.
C2_Witness ==
  /\ Returned("norm")
  /\ fnIn = <<Lit(3), NaN, Lit(3)>>
  /\ fnRet = <<Half, Half, Half>>

\* C3: diff(arr) has the length of arr, element 0 is 0, element i >= 1 is
\* arr[i] - arr[i-1], and arr is left as it was passed.
C3_Diff ==
  Returned("diff") =>
    /\ Len(fnRet) = Len(fnIn)
    /\ (Len(fnIn) >= 1 => fnRet[1] = 0)
    /\ \A k \in 2..Len(fnIn) : fnRet[k] = FSub(fnIn[k], fnIn[k - 1])
    /\ fnArg = fnIn

\* diff of an array with a finite step and a step to Infinity.
C3_Witness ==
  /\ Returned("diff")
  /\ fnIn = <<Lit(1), Lit(3), PosInf>>
  /\ fnRet = <<0, Lit(2), PosInf>>

\* C6: pick(cands) is the first name of cands present in the registry, and
\* "sine" when none is or the registry is missing or empty; LEAD_SYNTH and
\* PAD_SYNTH are pick of their candidate lists.
FirstAvailable(cands, avail, r) ==
  IF \E k \in 1..Len(cands) : cands[k] \in avail
  THEN \E k \in 1..Len(cands) :
         /\ r = cands[k]
         /\ cands[k] \in avail
         /\ \A j \in 1..(k - 1) : cands[j] \notin avail
  ELSE r = "sine"

C6_Pick ==
  /\ Returned("pick") =>
       /\ FirstAvailable(fnIn, IF sounds.present THEN sounds.names ELSE {}, fnRet)
       /\ (~sounds.present \/ sounds.names = {} => fnRet = "sine")
  /\ pc = "lorenz" =>
       /\ FirstAvailable(<<"tri", "pluck", "sine">>,
                         IF sounds.present THEN sounds.names ELSE {}, synth.lead)
       /\ FirstAvailable(<<"saw", "pulse", "tri", "sine">>,
                         IF sounds.present THEN sounds.names ELSE {}, synth.pad)

\* The registry lacks the first candidates: the lead falls to the second name
\* and the pad to the third.
C6_Witness ==
  /\ pc = "lorenz"
  /\ sounds = [present |-> TRUE, names |-> {"pluck", "tri", "square"}]
  /\ synth = [lead |-> "tri", pad |-> "tri"]

\* C8 as stated: with at least two distinct finite elements, norm keeps the
\* length, every element is in [0,1], the minimum maps to 0, the maximum to 1,
\* any other finite v to (v - min)/(max - min), a non-finite element to 0.5.
C8_NormAsStated ==
  Returned("norm") /\ Cardinality(FiniteOf(fnIn)) >= 2 =>
    LET mn == MinFinite(fnIn)
        mx == MaxFinite_(fnIn)
    IN /\ Len(fnRet) = Len(fnIn)
       /\ fnArg = fnIn
       /\ \A k \in 1..Len(fnIn) :
            /\ fnRet[k] >= 0 /\ fnRet[k] <= Lit(1)
            /\ (fnIn[k] = mn => fnRet[k] = 0)
            /\ (fnIn[k] = mx => fnRet[k] = Lit(1))
            /\ (IsFinite(fnIn[k]) => fnRet[k] = FDiv(FSub(fnIn[k], mn), FSub(mx, mn)))
            /\ (~IsFinite(fnIn[k]) => fnRet[k] = Half)

\* C8 as amended: the same when max - min is finite; when max - min overflows
\* to Infinity every element is still in [0,1], the minimum maps to 0, and an
\* element whose v - min overflows too (the maximum is one) maps to 0.5.
C8_NormAmended ==
  Returned("norm") /\ Cardinality(FiniteOf(fnIn)) >= 2 =>
    LET mn == MinFinite(fnIn)
        mx == MaxFinite_(fnIn)
        range == FSub(mx, mn)
    IN /\ Len(fnRet) = Len(fnIn)
       /\ fnArg = fnIn
       /\ \A k \in 1..Len(fnIn) :
            /\ fnRet[k] >= 0 /\ fnRet[k] <= Lit(1)
            /\ (~IsFinite(fnIn[k]) => fnRet[k] = Half)
            /\ (fnIn[k] = mn => fnRet[k] = 0)
            /\ (IsFinite(range) =>
                  /\ (fnIn[k] = mx => fnRet[k] = Lit(1))
                  /\ (IsFinite(fnIn[k]) =>
                        fnRet[k] = FDiv(FSub(fnIn[k], mn), range)))
            /\ (~IsFinite(range) /\ IsFinite(fnIn[k]) =>
                  fnRet[k] = IF IsFinite(FSub(fnIn[k], mn)) THEN 0 ELSE Half)

\* A finite range with an interior element: 0, 1, 3 becomes 0, 1/3, 1.
C8_Witness ==
  /\ Returned("norm")
  /\ fnIn = <<0, Lit(1), Lit(3)>>
  /\ fnRet = <<0, Frac(1, 3), Lit(1)>>


(***************************************************************************)
(* Properties of the feature mapper on any trajectory (SpecMap).           *)
(***************************************************************************)
\* Every element of arr is a finite number in [lo, hi].
Within(arr, lo, hi) ==
  \A k \in 1..Len(arr) : IsFinite(arr[k]) /\ arr[k] >= lo /\ arr[k] <= hi

SafeBuilt == pc \in {"pad", "done"}

\* C1: every element of every numeric series handed to the playback engine is
\* finite and inside its declared range, in both scripts, whatever the step
\* count, the draws and the trajectory (NaN and +/-Infinity included).
C1_ControlsInRange ==
  /\ SafeBuilt /\ script = "funky" =>
       /\ Within(safe.NOTES_SAFE, Lit(36), Lit(96))
       /\ Within(safe.CUT_SAFE, Lit(100), Lit(12000))
       /\ Within(safe.PAN_SAFE, Lit(-1), Lit(1))
       /\ Within(safe.GAIN_SAFE, Frac(1, 10), Frac(9, 10))
  /\ pc = "done" /\ script = "funky" =>
       /\ Within(pad.PAD_NOTES_SAFE, Lit(36), Lit(84))
       /\ Within(pad.PAD_CUT_SAFE, Lit(200), Lit(3000))
  /\ SafeBuilt /\ script = "part" =>
       /\ Within(safe.NOTES_SAFE, Lit(36), Lit(96))
       /\ Within(safe.CUT_SAFE, Lit(20), Lit(12000))
       /\ Within(safe.PAN_SAFE, Lit(-1), Lit(1))
       /\ Within(safe.GAIN_SAFE, 0, Lit(1))
  /\ pc = "done" /\ script = "part" =>
       /\ Within(pad.ROOTS_SAFE, Lit(36), Lit(96))
       /\ Within(pad.THIRDS_SAFE, Lit(36), Lit(96))
       /\ Within(pad.FIFTHS_SAFE, Lit(36), Lit(96))

\* A run over a trajectory with a non-finite state in which a raw note is NaN
\* and the series have been handed over.
C1_Witness ==
  /\ pc = "done" /\ script = "funky"
  /\ \E k \in 1..Len(pts) : \E a \in 1..3 : ~IsFinite(pts[k][a])
  /\ \E k \in 1..Len(pts) : ctl.notes[k] = NaN /\ pad.PAD_NOTES_SAFE[1] = Lit(36)
  /\ Len(pts) = MaxPts

MapBuilt == pc \in {"perc", "safe", "pad", "done"}

\* C7: in lorenz-funky.js every scale-degree index is in 0..4 and every octave
\* index in 0..3, so every note is a defined pitch between 48 and 94 and
\* NOTES_SAFE[i] equals notes[i].
C7_NoteIndicesInRange ==
  /\ MapBuilt /\ script = "funky" =>
       \A k \in 1..Len(pts) :
         /\ Floor(FMul(feat.xs[k], Lit(5))) \in 0..4
         /\ Floor(FMul(feat.ys[k], Lit(4))) \in 0..3
         /\ IsFinite(ctl.notes[k])
         /\ ctl.notes[k] >= Lit(48) /\ ctl.notes[k] <= Lit(94)
  /\ SafeBuilt /\ script = "funky" =>
       \A k \in 1..Len(pts) : safe.NOTES_SAFE[k] = ctl.notes[k]

\* The sign of a difference, a non-finite one counted as 0.
SignOf(d) == IF IsFinite(d) THEN (IF d > 0 THEN 1 ELSE IF d < 0 THEN -1 ELSE 0) ELSE 0

\* C9: in the second script kicks has the length of the trajectory, holds only
\* "bd" and "~", starts with "~", and has "bd" only at a sign change of the x
\* first-difference.
C9_KicksOnlyAtSignChange ==
  MapBuilt /\ pc # "perc" /\ script = "part" =>
    /\ Len(perc.kicks) = Len(pts)
    /\ \A k \in 1..Len(pts) : perc.kicks[k] \in {"bd", "~"}
    /\ (Len(pts) >= 1 => perc.kicks[1] = "~")
    /\ \A k \in 1..Len(pts) :
         perc.kicks[k] = "bd" =>
           k > 1 /\ SignOf(feat.dxs[k]) # SignOf(feat.dxs[k - 1])

\* Two sign changes in one run: the first gives a kick, the second does not.
C9_Witness ==
  /\ pc = "done" /\ script = "part"
  /\ Len(pts) = 3
  /\ SignOf(feat.dxs[2]) # SignOf(feat.dxs[1])
  /\ SignOf(feat.dxs[3]) # SignOf(feat.dxs[2])
  /\ perc.kicks = <<"~", "bd", "~">>


(***************************************************************************)
(* Properties of the integrator (SpecLorenz).                              *)
(***************************************************************************)
\* The states of tr are the successive RK4 steps from (1,1,1).
IsTrajectory(tr, a) ==
  \A k \in 1..Len(tr) :
    tr[k] = RK4Step(IF k = 1 THEN InitialCondition ELSE tr[k - 1],
                    a.dt, a.sigma, a.rho, a.beta)

C4_Partial ==
  /\ pc = "lorenz" => loc.i <= args.steps /\ Len(loc.pts) = loc.i
  /\ pc = "process" => Len(pts) = args.steps /\ IsTrajectory(pts, args)

\* C4: for every step count N >= 0 lorenz terminates and returns exactly N
\* states, in step order, state k being k RK4 steps from (1,1,1); none for N = 0.
\* Termination: every step of the loop either raises the counter i by one
\* while i < N, or returns at i = N, so N - i is a variant bounded by zero.
C4_LorenzReturnsNStates ==
  /\ []C4_Partial
  /\ [][pc = "lorenz" =>
         \/ pc' = "lorenz" /\ loc'.i = loc.i + 1 /\ loc.i < args.steps
         \/ pc' = "process" /\ loc.i = args.steps]_vars

\* lorenz has returned a trajectory of several distinct finite states.
C4_Witness ==
  /\ pc = "process"
  /\ args.steps >= 3 /\ Len(pts) = args.steps
  /\ \A k \in 1..3 : \A a \in 1..3 : IsFinite(pts[k][a])
  /\ pts[1] # InitialCondition /\ pts[2] # pts[1] /\ pts[3] # pts[2]

(***************************************************************************)
(* Properties of a whole script run (Spec).                                *)
(***************************************************************************)
SecondRunDone == run = 2 /\ pc = "done"

\* C5: two runs of the same script with the same integrator constants give
\* the same first computed state, the same trajectory and the same numeric
\* control series, whatever the random draws; only percussion may differ.
C5_NumericSeriesReproducible ==
  SecondRunDone =>
    /\ (Len(prev.pts) >= 1 => Len(pts) >= 1 /\ pts[1] = prev.pts[1])
    /\ pts = prev.pts
    /\ safe = prev.safe
    /\ pad = prev.pad

\* Two runs whose percussion differs and whose numeric series are non-trivial.
C5_Witness ==
  /\ SecondRunDone
  /\ perc # prev.perc
  /\ Len(pts) >= 2
  /\ safe.NOTES_SAFE[1] # safe.NOTES_SAFE[Len(pts)]
  /\ safe.GAIN_SAFE[1] # safe.GAIN_SAFE[Len(pts)]

\* C10: in the second script the pad voices form an undistorted major triad:
\* ROOTS_SAFE[j] is the clamped note of step 8*j, THIRDS_SAFE[j] and
\* FIFTHS_SAFE[j] lie 4 and 7 semitones above it, and the three series have
\* length ceil(N/8).
C10_MajorTriad ==
  pc = "done" /\ script = "part" =>
    LET n == Len(pts)
        len == (n + 7) \div 8
    IN /\ Len(pad.ROOTS_SAFE) = len
       /\ Len(pad.THIRDS_SAFE) = len
       /\ Len(pad.FIFTHS_SAFE) = len
       /\ \A j \in 1..len :
            /\ pad.ROOTS_SAFE[j] = safe.NOTES_SAFE[8 * (j - 1) + 1]
            /\ pad.THIRDS_SAFE[j] = pad.ROOTS_SAFE[j] + Lit(4)
            /\ pad.FIFTHS_SAFE[j] = pad.ROOTS_SAFE[j] + Lit(7)

\* Three pad chords over 17 steps, the roots differing and one at the top
\* note 84, where the bound of roots is met.
C10_Witness ==
  /\ pc = "done" /\ script = "part"
  /\ Len(pts) = 17
  /\ Len(pad.ROOTS_SAFE) = 3
  /\ pad.ROOTS_SAFE[1] # pad.ROOTS_SAFE[2]
  /\ pad.ROOTS_SAFE[3] = Lit(84)
  /\ pad.THIRDS_SAFE[3] = Lit(88)

====
